---- MODULE Spec2Model ----
(***************************************************************************)
(* A model of package jsonschema of go-openai (src/jsonschema/json.go):    *)
(* the Definition schema node, its JSON serializer (Definition.MarshalJSON)*)
(* and the reflective generator GenerateSchemaForType.                     *)
(*                                                                         *)
(* Go strings are modelled as sequences of characters.  A character is a   *)
(* TLA+ string; the words "omitempty", "object", ... are written as one    *)
(* element because the code only compares them whole.  No two elements     *)
(* that can occur in a name start with the same byte, so comparing         *)
(* sequences element by element agrees with comparing the Go strings.      *)
(*                                                                         *)
(* A nil-able Go value (a map, a pointer) is the empty sequence when nil   *)
(* and a one-element sequence holding the value otherwise.                 *)
(***************************************************************************)
EXTENDS Integers, Sequences, FiniteSets, TLC

VARIABLES
    status,   \* per caller: "idle", "running", "done" (generated), "built" (by hand),
              \* "crashed" (the program was ended inside the call)
    input,    \* per caller: the value handed to GenerateSchemaForType
    stack,    \* per caller: the Go call stack of the generator, top last
    guard,    \* per caller: which cycle-guard map its call tree was given
    seen,     \* the cycle-guard maps, by identity: the set of keys set to true
    ret,      \* per caller: the (Definition, error) pair last returned
    node,     \* per caller: the Definition the caller holds
    out       \* per caller: the output of json.Marshal on node and on &node

vars == <<status, input, stack, guard, seen, ret, node, out>>

---------------------------------------------------------------------------
(* Bounds of the model. *)

\* the longest field list of the struct type under test
MaxFields == 2
\* the most pointer levels wrapped around a root type
MaxPtrDepth == 2
\* the deepest hand-built Definition tree given to the serializer
MaxDepth == 1
\* the most frames of the generator's call stack that are followed
MaxStack == 8

---------------------------------------------------------------------------
(* Nil-able values. *)

Nil == <<>>

Some(x) == <<x>>

---------------------------------------------------------------------------
(* Go types, as reflect.Type sees them.  A named struct type is known by   *)
(* its name; its fields are looked up in the declarations below.           *)

Prim(k) == [kind |-> k, name |-> "", elem |-> <<>>]

PointerTo(t) == [kind |-> "ptr", name |-> "", elem |-> <<t>>]

SliceOf(t) == [kind |-> "slice", name |-> "", elem |-> <<t>>]

ArrayOf(t) == [kind |-> "array", name |-> "", elem |-> <<t>>]

MapOf(t) == [kind |-> "map", name |-> "", elem |-> <<t>>]

Struct(n) == [kind |-> "struct", name |-> n, elem |-> <<>>]

\* reflect.Type.Kind
Kind(t) == t.kind

\* a declared type that is not a struct, known by its name
Named(k, n) == [kind |-> k, name |-> n, elem |-> <<>>]

\* type L []L
T_L == Named("slice", "L")

\* type M map[string]M
T_M == Named("map", "M")

\* type P *P
T_P == Named("ptr", "P")

\* the element type in the declaration of the named type n
ElemDecl(n) ==
    CASE n = "L" -> T_L
      [] n = "M" -> T_M
      [] n = "P" -> T_P

\* reflect.Type.Elem
Elem(t) == IF t.name = "" THEN t.elem[1] ELSE ElemDecl(t.name)

IntKinds == {"int", "int8", "int16", "int32", "int64",
             "uint", "uint8", "uint16", "uint32", "uint64"}

FloatKinds == {"float32", "float64"}

\* kinds the switch of generateSchema does not list
OtherKinds == {"chan", "func", "complex128", "uintptr", "unsafe.Pointer"}

---------------------------------------------------------------------------
(* Struct fields.  A field is its tags and its type; its Go name is given  *)
(* by its position in the struct, since the names of one struct differ.    *)

Fld(exported, json, desc, enum, type) ==
    [Exported |-> exported, json |-> json, desc |-> desc, enum |-> enum, Type |-> type]

GoNames == <<"A", "B", "C", "D", "E", "F">>

\* reflect.StructField.Name of the i-th field
FieldGoName(i) == <<GoNames[i]>>

OMITEMPTY == <<"omitempty">>

TAG_x == <<"x">>

TAG_y == <<"y">>

TAG_x_omitempty == <<"x", ",", "omitempty">>

TAG_y_omitempty == <<"y", ",", "omitempty">>

TAG_omitempty == <<",", "omitempty">>

TAG_dash == <<"-">>

TAG_dash_comma == <<"-", ",">>

TAG_y_a_omitempty == <<"y", ",", "a", ",", "omitempty">>

TAG_B == <<"B">>

ENUM_a_b == <<"a", ",", "b">>

ENUM_a_a == <<"a", ",", "a">>

ENUM_comma == <<",">>

DESC_d == <<"d">>

T_string == Prim("string")

T_U == Struct("U")

T_G == Struct("G")

T_Node == Struct("Node")

T_Tree == Struct("Tree")

T_Ping == Struct("Ping")

T_Pong == Struct("Pong")

T_Pair == Struct("Pair")

\* The declared struct types other than G:
\*   type U    struct { A string `json:"x"`; B int `json:"y,omitempty"` }
\*   type Node struct { A string; B *Node `json:"x"` }
\*   type Tree struct { A []Tree `json:"x"`; B map[string]Tree `json:"y"`; C [2]*Tree }
\*   type Ping struct { A *Pong }
\*   type Pong struct { A string; B **Ping `json:"x"`; C string `json:"-"` }
\*   type Pair struct { A U `json:"x"`; B U `json:"y"`; C []U; D *U `json:",omitempty"`; e bool }
StructDecl(n) ==
    CASE n = "U" -> << Fld(TRUE, TAG_x, <<>>, <<>>, T_string),
                       Fld(TRUE, TAG_y_omitempty, <<>>, <<>>, Prim("int")) >>
      [] n = "Node" -> << Fld(TRUE, <<>>, <<>>, <<>>, T_string),
                          Fld(TRUE, TAG_x, <<>>, <<>>, PointerTo(T_Node)) >>
      [] n = "Tree" -> << Fld(TRUE, TAG_x, <<>>, <<>>, SliceOf(T_Tree)),
                          Fld(TRUE, TAG_y, <<>>, <<>>, MapOf(T_Tree)),
                          Fld(TRUE, <<>>, <<>>, <<>>, ArrayOf(PointerTo(T_Tree))) >>
      [] n = "Ping" -> << Fld(TRUE, <<>>, <<>>, <<>>, PointerTo(T_Pong)) >>
      [] n = "Pong" -> << Fld(TRUE, <<>>, <<>>, <<>>, T_string),
                          Fld(TRUE, TAG_x, <<>>, <<>>, PointerTo(PointerTo(T_Ping))),
                          Fld(TRUE, TAG_dash, <<>>, <<>>, T_string) >>
      [] n = "Pair" -> << Fld(TRUE, TAG_x, <<>>, <<>>, T_U),
                          Fld(TRUE, TAG_y, <<>>, <<>>, T_U),
                          Fld(TRUE, <<>>, <<>>, <<>>, SliceOf(T_U)),
                          Fld(TRUE, TAG_omitempty, <<>>, <<>>, PointerTo(T_U)),
                          Fld(FALSE, <<>>, <<>>, <<>>, Prim("bool")) >>
      [] OTHER -> << >>

\* The fields a declaration of the struct type G is built from.
FieldPool ==
    { Fld(TRUE,  <<>>,              <<>>,   <<>>,       T_string),
      Fld(TRUE,  TAG_x,             DESC_d, ENUM_a_b,   T_string),
      Fld(TRUE,  TAG_x_omitempty,   <<>>,   <<>>,       Prim("interface")),
      Fld(TRUE,  TAG_omitempty,     <<>>,   <<>>,       PointerTo(PointerTo(T_Node))),
      Fld(TRUE,  TAG_dash,          <<>>,   <<>>,       T_string),
      Fld(FALSE, TAG_y,             <<>>,   <<>>,       Prim("bool")),
      Fld(TRUE,  TAG_y,             <<>>,   ENUM_a_a,   PointerTo(T_G)),
      Fld(TRUE,  <<>>,              DESC_d, <<>>,       SliceOf(T_G)),
      Fld(TRUE,  TAG_dash_comma,    <<>>,   ENUM_comma, T_U),
      Fld(TRUE,  TAG_B,             <<>>,   <<>>,       SliceOf(T_U)),
      Fld(TRUE,  TAG_y_a_omitempty, DESC_d, <<>>,       MapOf(T_G)),
      Fld(TRUE,  <<>>,              <<>>,   <<>>,       Prim("chan")) }

\* every declaration of G: a field list of at most MaxFields fields
Decls == UNION { [1..n -> FieldPool] : n \in 0..MaxFields }

\* reflect.Type.NumField and reflect.Type.Field: the fields of struct type t,
\* g being the declaration of G in the program at hand
Fields(t, g) == IF t.name = "G" THEN g ELSE StructDecl(t.name)

---------------------------------------------------------------------------
(* The schema node. *)

Object == <<"object">>

Number == <<"number">>

Integer == <<"integer">>

String == <<"string">>

Array == <<"array">>

Null == <<"null">>

Boolean == <<"boolean">>

\* the zero value Definition{}
Definition ==
    [Type |-> <<>>, Description |-> <<>>, Enum |-> <<>>, Properties |-> Nil,
     Required |-> <<>>, Items |-> Nil, AdditionalProperties |-> Nil]

\* make(map[string]Definition), map[string]Definition{}
EmptyMap == << >>

\* m[k] = v on a Go map
MapPut(m, k, v) == [x \in (DOMAIN m) \cup {k} |-> IF x = k THEN v ELSE m[x]]

---------------------------------------------------------------------------
(* The generator: the parts of generateSchema and generateStructSchema     *)
(* that compute values.                                                    *)

RECURSIVE Split(_, _)
\* strings.Split(s, sep), sep one character
Split(s, sep) ==
    IF \E i \in 1..Len(s) : s[i] = sep
    THEN LET i == CHOOSE j \in 1..Len(s) :
                     s[j] = sep /\ \A k \in 1..(j - 1) : s[k] # sep
         IN  <<SubSeq(s, 1, i - 1)>> \o Split(SubSeq(s, i + 1, Len(s)), sep)
    ELSE <<s>>

\* a field generateStructSchema passes over: unexported, or tagged json:"-"
skipped(field) == ~field.Exported \/ field.json = TAG_dash

\* the whole json tag taken for the name, options and all
fieldNameWholeTag(field, i) == IF field.json # <<>> THEN field.json ELSE FieldGoName(i)

\* the property name of the i-th field
fieldName(field, i) ==
    IF field.json # <<>> /\ Split(field.json, ",")[1] # <<>>
    THEN Split(field.json, ",")[1]
    ELSE FieldGoName(i)

\* only the first option of the json tag is looked at
isOmitemptyFirstOption(field) ==
    /\ field.json # <<>>
    /\ Len(Split(field.json, ",")) > 1
    /\ Split(field.json, ",")[2] = OMITEMPTY

\* whether a part after the first of the json tag is "omitempty"
isOmitempty(field) ==
    /\ field.json # <<>>
    /\ LET parts == Split(field.json, ",")
       IN  \E k \in 2..Len(parts) : parts[k] = OMITEMPTY

\* the field's schema after the description tag is applied
withDescription(fieldSchema, field) ==
    IF field.desc # <<>>
    THEN [fieldSchema EXCEPT !.Description = field.desc]
    ELSE fieldSchema

\* the enum tag taken as one literal, commas and all
withEnumWholeTag(fieldSchema, field) ==
    IF field.enum # <<>>
    THEN [fieldSchema EXCEPT !.Enum = <<field.enum>>]
    ELSE fieldSchema

\* the field's schema after the enum tag is applied
withEnum(fieldSchema, field) ==
    IF field.enum # <<>>
    THEN [fieldSchema EXCEPT !.Enum = Split(field.enum, ",")]
    ELSE fieldSchema

\* the guard returning an object whose Properties map was never made
cycleSchemaNilProperties == [Definition EXCEPT !.Type = Object]

\* what generateSchema returns for a struct type that is being expanded
cycleSchema == [Definition EXCEPT !.Type = Object, !.Properties = Some(EmptyMap)]

\* the switch with a default case that returns the empty schema
leafSchemaEmptyDefault(k) ==
    CASE k = "string" -> [Definition EXCEPT !.Type = String]
      [] k \in IntKinds -> [Definition EXCEPT !.Type = Integer]
      [] k \in FloatKinds -> [Definition EXCEPT !.Type = Number]
      [] k = "bool" -> [Definition EXCEPT !.Type = Boolean]
      [] OTHER -> Definition

\* what the switch of generateSchema returns for a kind it does not recurse into
leafSchema(k) ==
    CASE k = "string" -> [Definition EXCEPT !.Type = String]
      [] k \in IntKinds -> [Definition EXCEPT !.Type = Integer]
      [] k \in FloatKinds -> [Definition EXCEPT !.Type = Number]
      [] k = "bool" -> [Definition EXCEPT !.Type = Boolean]
      [] k = "interface" -> Definition
      [] OTHER -> [Definition EXCEPT !.Type = String]

\* what generateStructSchema returns
structSchema(properties, required) ==
    [Definition EXCEPT !.Type = Object, !.Properties = Some(properties),
                       !.Required = required]

\* what generateArraySchema returns
arraySchema(elemSchema) ==
    [Definition EXCEPT !.Type = Array, !.Items = Some(elemSchema)]

\* what generateMapSchema returns
mapSchema(valueSchema) ==
    [Definition EXCEPT !.Type = Object, !.Properties = Some(EmptyMap)]

NoError == "nil"

---------------------------------------------------------------------------
(* The generator run to completion by one caller on its own: each function *)
(* yields its (Definition, error) pair and the cycle-guard map as it       *)
(* leaves it.                                                              *)

Result(def, err, s) == [def |-> def, err |-> err, seen |-> s]

\* pointers are not dereferenced at all
neverPtr(t) == FALSE

\* the condition of the loop that dereferences pointers: t.Kind() == reflect.Ptr
isPtr(t) == Kind(t) = "ptr"

RECURSIVE Indirect(_)
\* the loop that dereferences pointers
Indirect(t) == IF isPtr(t) THEN Indirect(Elem(t)) ELSE t

RECURSIVE generateSchema(_, _, _)
RECURSIVE generateStructSchema(_, _, _)
RECURSIVE structLoop(_, _, _, _, _, _)
RECURSIVE generateArraySchema(_, _, _)
RECURSIVE generateMapSchema(_, _, _)

generateSchema(t0, s, g) ==
    LET t == Indirect(t0)
    IN  IF Kind(t) = "struct" /\ t \in s
        THEN Result(cycleSchema, NoError, s)
        ELSE CASE Kind(t) = "struct" -> generateStructSchema(t, s, g)
               [] Kind(t) \in {"slice", "array"} -> generateArraySchema(t, s, g)
               [] Kind(t) = "map" -> generateMapSchema(t, s, g)
               [] OTHER -> Result(leafSchema(Kind(t)), NoError, s)

\* the loop over the fields, from field i on
structLoop(t, i, properties, required, s, g) ==
    IF i > Len(Fields(t, g))
    THEN Result(structSchema(properties, required), NoError, s)
    ELSE LET field == Fields(t, g)[i]
         IN  IF skipped(field)
             THEN structLoop(t, i + 1, properties, required, s, g)
             ELSE LET r == generateSchema(field.Type, s, g)
                      fieldSchema == withEnum(withDescription(r.def, field), field)
                  IN  IF r.err # NoError
                      THEN Result(Definition, r.err, r.seen)
                      ELSE structLoop(t, i + 1,
                               MapPut(properties, fieldName(field, i), fieldSchema),
                               IF isOmitempty(field) THEN required
                               ELSE Append(required, fieldName(field, i)),
                               r.seen, g)

generateStructSchema(t, s, g) ==
    LET r == structLoop(t, 1, EmptyMap, <<>>, s \cup {t}, g)
    IN  Result(r.def, r.err, r.seen \ {t})

generateArraySchema(t, s, g) ==
    LET r == generateSchema(Elem(t), s, g)
    IN  IF r.err # NoError
        THEN Result(Definition, r.err, r.seen)
        ELSE Result(arraySchema(r.def), NoError, r.seen)

generateMapSchema(t, s, g) ==
    LET r == generateSchema(Elem(t), s, g)
    IN  IF r.err # NoError
        THEN Result(Definition, r.err, r.seen)
        ELSE Result(mapSchema(r.def), NoError, r.seen)

\* GenerateSchemaForType(v), v a value of type t in a program declaring G as g
GenerateSchemaForType(t, g) == generateSchema(t, {}, g)

---------------------------------------------------------------------------
(* The callers and their inputs. *)

Callers == {"c1", "c2"}

RECURSIVE PtrN(_, _)
\* t behind n pointer levels
PtrN(t, n) == IF n = 0 THEN t ELSE PointerTo(PtrN(t, n - 1))

\* the struct types a caller may hand over whatever G is declared as
DeclaredRoots == {T_U, T_Node, T_Tree, T_Ping, T_Pong, T_Pair}

\* the types of the values handed to GenerateSchemaForType: reflect.TypeOf
\* gives the dynamic type of the value, so an interface type is a root only
\* behind a pointer or as the element of a slice
RootTypes ==
    { PtrN(t, n) : t \in DeclaredRoots, n \in 0..MaxPtrDepth }
    \cup { T_G, PtrN(T_G, MaxPtrDepth) }
    \cup { SliceOf(T_Node), MapOf(T_Node), ArrayOf(T_Pair) }
    \cup { Prim(k) : k \in IntKinds \cup FloatKinds \cup OtherKinds \cup {"string", "bool"} }
    \cup { SliceOf(Prim("func")), MapOf(Prim("chan")), PointerTo(Prim("complex128")),
           ArrayOf(SliceOf(PointerTo(Prim("uintptr")))) }
    \cup { PointerTo(Prim("interface")), SliceOf(Prim("interface")) }

\* whether the declaration of G matters to the schema of t
RECURSIVE MentionsG(_)
MentionsG(t) == IF t.elem = <<>> THEN t = T_G ELSE MentionsG(Elem(t))

\* the inputs of one call: the type of the value, and the program's G
Inputs ==
    { [type |-> t, G |-> g] : t \in {r \in RootTypes : MentionsG(r)}, g \in Decls }
    \cup { [type |-> t, G |-> <<>>] : t \in {r \in RootTypes : ~MentionsG(r)} }

NoInput == [type |-> Prim("invalid"), G |-> <<>>]

---------------------------------------------------------------------------
(* The generator as the Go runtime runs it: one frame per active call.     *)

Frame(fn, t, pc) ==
    [fn |-> fn, t |-> t, pc |-> pc, i |-> 1, properties |-> EmptyMap, required |-> <<>>]

Top(c) == stack[c][Len(stack[c])]

\* the stack with its top frame replaced
SetTop(c, f) == [stack[c] EXCEPT ![Len(stack[c])] = f]

Pop(c) == SubSeq(stack[c], 1, Len(stack[c]) - 1)

Running(c, fn, pc) ==
    /\ status[c] = "running"
    /\ stack[c] # <<>>
    /\ Top(c).fn = fn
    /\ Top(c).pc = pc

\* the cycle-guard map of caller c's call tree
Seen(c) == seen[guard[c]]

\* one package-level map handed to every call
SharedGuard(c) == "c1"

\* make(map[reflect.Type]bool): the identity of the map made for a call by c
NewGuard(c) == c

GuardIds == { NewGuard(c) : c \in Callers }

\* the top frame returns (def, err) to its caller; the outermost return
\* hands the pair to the caller of GenerateSchemaForType
Return(c, def, err) ==
    /\ stack' = [stack EXCEPT ![c] = Pop(c)]
    /\ ret' = [ret EXCEPT ![c] = [def |-> def, err |-> err]]
    /\ IF Len(stack[c]) = 1
       THEN /\ status' = [status EXCEPT ![c] = "done"]
            /\ node' = [node EXCEPT ![c] = def]
       ELSE UNCHANGED <<status, node>>

\* schema, err := jsonschema.GenerateSchemaForType(v)
CallGenerateSchemaForType(c, in) ==
    /\ status[c] = "idle"
    /\ status' = [status EXCEPT ![c] = "running"]
    /\ input' = [input EXCEPT ![c] = in]
    /\ guard' = [guard EXCEPT ![c] = NewGuard(c)]
    /\ seen' = [seen EXCEPT ![NewGuard(c)] = {}]
    /\ stack' = [stack EXCEPT ![c] = <<Frame("generateSchema", in.type, "deref")>>]
    /\ UNCHANGED <<ret, node, out>>

\* for t.Kind() == reflect.Ptr { t = t.Elem() }: one iteration
DerefPtr(c) ==
    /\ Running(c, "generateSchema", "deref")
    /\ isPtr(Top(c).t)
    /\ stack' = [stack EXCEPT ![c] = SetTop(c, [Top(c) EXCEPT !.t = Elem(Top(c).t)])]
    /\ UNCHANGED <<status, input, guard, seen, ret, node, out>>

\* the cycle check finds the struct type in seen
ReturnCycle(c) ==
    /\ Running(c, "generateSchema", "deref")
    /\ ~isPtr(Top(c).t)
    /\ Kind(Top(c).t) = "struct"
    /\ Top(c).t \in Seen(c)
    /\ Return(c, cycleSchema, NoError)
    /\ UNCHANGED <<input, guard, seen, out>>

\* case reflect.Struct: generateStructSchema is entered and marks its type
CallStruct(c) ==
    /\ Running(c, "generateSchema", "deref")
    /\ ~isPtr(Top(c).t)
    /\ Kind(Top(c).t) = "struct"
    /\ Top(c).t \notin Seen(c)
    /\ stack' = [stack EXCEPT ![c] = SetTop(c, Frame("generateStructSchema", Top(c).t, "loop"))]
    /\ seen' = [seen EXCEPT ![guard[c]] = @ \cup {Top(c).t}]
    /\ UNCHANGED <<status, input, guard, ret, node, out>>

\* case reflect.Slice, reflect.Array: generateArraySchema calls generateSchema
CallArray(c) ==
    /\ Running(c, "generateSchema", "deref")
    /\ ~isPtr(Top(c).t)
    /\ Kind(Top(c).t) \in {"slice", "array"}
    /\ Len(stack[c]) < MaxStack
    /\ stack' = [stack EXCEPT ![c] =
                    Append(SetTop(c, Frame("generateArraySchema", Top(c).t, "await")),
                           Frame("generateSchema", Elem(Top(c).t), "deref"))]
    /\ UNCHANGED <<status, input, guard, seen, ret, node, out>>

\* case reflect.Map: generateMapSchema calls generateSchema
CallMap(c) ==
    /\ Running(c, "generateSchema", "deref")
    /\ ~isPtr(Top(c).t)
    /\ Kind(Top(c).t) = "map"
    /\ Len(stack[c]) < MaxStack
    /\ stack' = [stack EXCEPT ![c] =
                    Append(SetTop(c, Frame("generateMapSchema", Top(c).t, "await")),
                           Frame("generateSchema", Elem(Top(c).t), "deref"))]
    /\ UNCHANGED <<status, input, guard, seen, ret, node, out>>

\* the cases of the switch that return at once
ReturnLeaf(c) ==
    /\ Running(c, "generateSchema", "deref")
    /\ ~isPtr(Top(c).t)
    /\ Kind(Top(c).t) \notin {"struct", "slice", "array", "map"}
    /\ Return(c, leafSchema(Kind(Top(c).t)), NoError)
    /\ UNCHANGED <<input, guard, seen, out>>

\* the i-th field of the struct the top frame expands
CurrentField(c) == Fields(Top(c).t, input[c].G)[Top(c).i]

MoreFields(c) == Top(c).i <= Len(Fields(Top(c).t, input[c].G))

\* the loop passes over an unexported or json:"-" field
SkipField(c) ==
    /\ Running(c, "generateStructSchema", "loop")
    /\ MoreFields(c)
    /\ skipped(CurrentField(c))
    /\ stack' = [stack EXCEPT ![c] = SetTop(c, [Top(c) EXCEPT !.i = @ + 1])]
    /\ UNCHANGED <<status, input, guard, seen, ret, node, out>>

\* the loop calls generateSchema(field.Type, seen)
CallField(c) ==
    /\ Running(c, "generateStructSchema", "loop")
    /\ MoreFields(c)
    /\ ~skipped(CurrentField(c))
    /\ Len(stack[c]) < MaxStack
    /\ stack' = [stack EXCEPT ![c] =
                    Append(SetTop(c, [Top(c) EXCEPT !.pc = "await"]),
                           Frame("generateSchema", CurrentField(c).Type, "deref"))]
    /\ UNCHANGED <<status, input, guard, seen, ret, node, out>>

\* the struct frame returning with its type still marked
NoDelete(c) == UNCHANGED seen

\* the struct frame returning with the whole map cleared
DeleteAll(c) == seen' = [seen EXCEPT ![guard[c]] = {}]

\* defer delete(seen, t), as the struct frame returns
DeferDelete(c) == seen' = [seen EXCEPT ![guard[c]] = @ \ {Top(c).t}]

\* the call for the field has returned: tags, properties, required
FieldReturn(c) ==
    /\ Running(c, "generateStructSchema", "await")
    /\ LET field == CurrentField(c)
           fieldSchema == withEnum(withDescription(ret[c].def, field), field)
       IN  IF ret[c].err # NoError
           THEN /\ Return(c, Definition, ret[c].err)
                /\ DeferDelete(c)
           ELSE /\ stack' = [stack EXCEPT ![c] = SetTop(c,
                        [Top(c) EXCEPT
                            !.pc = "loop",
                            !.i = @ + 1,
                            !.properties = MapPut(@, fieldName(field, Top(c).i), fieldSchema),
                            !.required = IF isOmitempty(field) THEN @
                                         ELSE Append(@, fieldName(field, Top(c).i))])]
                /\ UNCHANGED <<status, seen, ret, node>>
    /\ UNCHANGED <<input, guard, out>>

\* the loop is over: the struct's Definition is returned
StructReturn(c) ==
    /\ Running(c, "generateStructSchema", "loop")
    /\ ~MoreFields(c)
    /\ Return(c, structSchema(Top(c).properties, Top(c).required), NoError)
    /\ DeferDelete(c)
    /\ UNCHANGED <<input, guard, out>>

\* generateArraySchema gets the element's schema back
ArrayReturn(c) ==
    /\ Running(c, "generateArraySchema", "await")
    /\ IF ret[c].err # NoError
       THEN Return(c, Definition, ret[c].err)
       ELSE Return(c, arraySchema(ret[c].def), NoError)
    /\ UNCHANGED <<input, guard, seen, out>>

\* generateMapSchema gets the value's schema back
MapReturn(c) ==
    /\ Running(c, "generateMapSchema", "await")
    /\ IF ret[c].err # NoError
       THEN Return(c, Definition, ret[c].err)
       ELSE Return(c, mapSchema(ret[c].def), NoError)
    /\ UNCHANGED <<input, guard, seen, out>>

---------------------------------------------------------------------------
(* JSON text, as the tree of values it denotes.  An object keeps its       *)
(* members in the order they are written.                                  *)

JNull == [k |-> "null", v |-> <<>>]

JBool(b) == [k |-> "bool", v |-> b]

JString(s) == [k |-> "string", v |-> s]

JArray(a) == [k |-> "array", v |-> a]

JObject(members) == [k |-> "object", v |-> members]

Member(key, val) == [key |-> key, val |-> val]

\* the characters of property names, in byte order
Alphabet == <<"-", "A", "B", "C", "D", "E", "F", "a", "b", "d", "omitempty", "x", "y">>

CharRank(ch) == CHOOSE i \in 1..Len(Alphabet) : Alphabet[i] = ch

RECURSIVE StringLess(_, _)
\* s < t on Go strings
StringLess(s, t) ==
    IF s = <<>> THEN t # <<>>
    ELSE IF t = <<>> THEN FALSE
    ELSE IF Head(s) = Head(t) THEN StringLess(Tail(s), Tail(t))
    ELSE CharRank(Head(s)) < CharRank(Head(t))

RECURSIVE SortedKeys(_)
\* encoding/json writes the keys of a map in sorted order
SortedKeys(S) ==
    IF S = {} THEN <<>>
    ELSE LET m == CHOOSE x \in S : \A y \in S \ {x} : StringLess(x, y)
         IN  <<m>> \o SortedKeys(S \ {m})

---------------------------------------------------------------------------
(* The serializer. *)

\* jsonschema.Ptr(v)
Ptr(v) == Some(v)

\* MarshalJSON declared on *Definition: a plain value does not have the method
pointerReceiver(viaPointer) == viaPointer

\* Whether encoding/json finds MarshalJSON for a Definition it reaches through
\* a pointer (viaPointer) or as a plain value (a map element, the value given
\* to json.Marshal).  MarshalJSON has a value receiver, so it is in the method
\* set of Definition and of *Definition.
implementsMarshaler(viaPointer) == TRUE

\* `json:",omitempty"` on the Type, Description, Enum and Required fields
omitempty(key, s, val) == IF s = <<>> THEN <<>> ELSE <<Member(key, val)>>

strings(a) == JArray([i \in 1..Len(a) |-> JString(a[i])])

\* the field declared as a plain bool: omitempty drops false as well
encodePlainBool(ap) ==
    IF ap = Nil \/ ap = <<FALSE>>
    THEN <<>>
    ELSE <<[key |-> <<"additionalProperties">>, val |-> [k |-> "bool", v |-> ap[1]]]>>

\* AdditionalProperties *bool `json:"additionalProperties,omitempty"`
encodeAdditionalProperties(ap) ==
    IF ap = Nil THEN <<>> ELSE <<Member(<<"additionalProperties">>, JBool(ap[1]))>>

\* MarshalJSON without the default for nil Properties
notDefaulted(d) == d

\* the receiver of MarshalJSON once its Properties are defaulted
defaulted(d) ==
    IF d.Properties = Nil THEN [d EXCEPT !.Properties = Some(EmptyMap)] ELSE d

RECURSIVE MarshalJSON(_)
RECURSIVE encodeDefinition(_, _)
RECURSIVE encodeAlias(_)

\* json.Marshal of the fields of Alias(d): the struct tags of Definition decide
encodeAlias(d) ==
    JObject(
        omitempty(<<"type">>, d.Type, JString(d.Type))
        \o omitempty(<<"description">>, d.Description, JString(d.Description))
        \o omitempty(<<"enum">>, d.Enum, strings(d.Enum))
        \o << Member(<<"properties">>,
                IF d.Properties = Nil THEN JNull
                ELSE LET m == d.Properties[1]
                         keys == SortedKeys(DOMAIN m)
                     IN  JObject([i \in 1..Len(keys) |->
                             Member(keys[i], encodeDefinition(m[keys[i]], FALSE))])) >>
        \o omitempty(<<"required">>, d.Required, strings(d.Required))
        \o (IF d.Items = Nil THEN <<>>
            ELSE <<Member(<<"items">>, encodeDefinition(d.Items[1], TRUE))>>)
        \o encodeAdditionalProperties(d.AdditionalProperties))

\* func (d Definition) MarshalJSON: the text, and the receiver as the method leaves it
MarshalJSON(d) == [json |-> encodeAlias(defaulted(d)), receiver |-> defaulted(d)]

\* encoding/json on a value of type Definition
encodeDefinition(d, viaPointer) ==
    IF implementsMarshaler(viaPointer) THEN MarshalJSON(d).json ELSE encodeAlias(d)

\* MarshalJSON working on the caller's Definition itself, as a method with a
\* pointer receiver does
receiverWrittenBack(callers, receiver) == receiver

\* the caller's Definition after a call of MarshalJSON on it: the receiver is
\* a copy, so what the method assigned to it is lost
afterMarshalJSON(callers, receiver) == callers

---------------------------------------------------------------------------
(* Definitions built by hand, as the callers of the serializer do.         *)

Leaves ==
    { [Definition EXCEPT !.Type = ty, !.Properties = pr, !.AdditionalProperties = ap] :
        ty \in {<<>>, String}, pr \in {Nil, Some(EmptyMap)},
        ap \in {Nil, Ptr(TRUE), Ptr(FALSE)} }

RECURSIVE Trees(_)
\* the Definition trees of depth at most n
Trees(n) ==
    IF n = 0 THEN Leaves
    ELSE LET sub == Trees(n - 1)
         IN  sub
             \cup { [Definition EXCEPT !.Type = Object,
                                       !.Properties = Some(<<"a">> :> child),
                                       !.AdditionalProperties = ap] :
                        child \in sub, ap \in {Nil, Ptr(FALSE)} }
             \cup { [Definition EXCEPT !.Type = Object,
                                       !.Properties = Some(<<"b">> :> child @@ <<"a">> :> Definition),
                                       !.Required = << <<"b">> >>,
                                       !.AdditionalProperties = ap] :
                        child \in sub, ap \in {Nil, Ptr(FALSE)} }
             \cup { [Definition EXCEPT !.Type = Array, !.Items = Some(child)] :
                        child \in sub }

HandBuilt == Trees(MaxDepth)

\* def := jsonschema.Definition{...}
Build(c, d) ==
    /\ status[c] = "idle"
    /\ status' = [status EXCEPT ![c] = "built"]
    /\ node' = [node EXCEPT ![c] = d]
    /\ UNCHANGED <<input, stack, guard, seen, ret, out>>

\* schema.AdditionalProperties = jsonschema.Ptr(b), on a generated schema
SetAdditionalProperties(c, b) ==
    /\ status[c] = "done"
    /\ out[c] = [value |-> Nil, pointer |-> Nil]
    /\ status' = [status EXCEPT ![c] = "built"]
    /\ node' = [node EXCEPT ![c].AdditionalProperties = Ptr(b)]
    /\ UNCHANGED <<input, stack, guard, seen, ret, out>>

\* got, _ := json.Marshal(def)
MarshalValue(c) ==
    /\ status[c] \in {"done", "built"}
    /\ out[c].value = Nil
    /\ out' = [out EXCEPT ![c].value = Some(encodeDefinition(node[c], FALSE))]
    /\ UNCHANGED <<status, input, stack, guard, seen, ret, node>>

\* gotPtr, _ := json.Marshal(&def)
MarshalPointer(c) ==
    /\ status[c] \in {"done", "built"}
    /\ out[c].pointer = Nil
    /\ out' = [out EXCEPT ![c].pointer = Some(encodeDefinition(node[c], TRUE))]
    /\ node' = [node EXCEPT ![c] =
                  IF implementsMarshaler(TRUE)
                  THEN afterMarshalJSON(@, MarshalJSON(@).receiver)
                  ELSE @]
    /\ UNCHANGED <<status, input, stack, guard, seen, ret>>

Init ==
    /\ status = [c \in Callers |-> "idle"]
    /\ input = [c \in Callers |-> NoInput]
    /\ stack = [c \in Callers |-> <<>>]
    /\ guard = [c \in Callers |-> NewGuard(c)]
    /\ seen = [m \in GuardIds |-> {}]
    /\ ret = [c \in Callers |-> [def |-> Definition, err |-> NoError]]
    /\ node = [c \in Callers |-> Definition]
    /\ out = [c \in Callers |-> [value |-> Nil, pointer |-> Nil]]

\* caller c runs the generator
Generate(c) ==
    \/ DerefPtr(c)
    \/ ReturnCycle(c)
    \/ CallStruct(c)
    \/ CallArray(c)
    \/ CallMap(c)
    \/ ReturnLeaf(c)
    \/ SkipField(c)
    \/ CallField(c)
    \/ FieldReturn(c)
    \/ StructReturn(c)
    \/ ArrayReturn(c)
    \/ MapReturn(c)

Next ==
    \/ /\ status["c1"] = "idle"
       /\ \E in \in Inputs : CallGenerateSchemaForType("c1", in)
    \/ Generate("c1")
    \/ /\ status["c1"] = "idle"
       /\ \E d \in HandBuilt : Build("c1", d)
    \/ \E b \in BOOLEAN : SetAdditionalProperties("c1", b)
    \/ MarshalValue("c1")
    \/ MarshalPointer("c1")

Spec == Init /\ [][Next]_vars

\* a call that has started keeps running: nothing in the generator waits
FairSpec == Spec /\ WF_vars(Generate("c1"))

---------------------------------------------------------------------------
(* Properties. *)

\* the callers whose call of GenerateSchemaForType has returned
Returned == { c \in Callers : status[c] = "done" }

\* an object Definition with no properties at all
IsEmptyObject(d) ==
    /\ d.Type = Object
    /\ d.Properties = Some(EmptyMap)
    /\ d.Required = <<>>
    /\ d.Items = Nil

\* the part of a json tag before its first comma
NamePart(tag) ==
    IF \E i \in 1..Len(tag) : tag[i] = ","
    THEN SubSeq(tag, 1, (CHOOSE i \in 1..Len(tag) :
                            tag[i] = "," /\ \A k \in 1..(i - 1) : tag[k] # ",") - 1)
    ELSE tag

\* the annotation-resolved name of the i-th field: the name part of its json
\* tag, or its Go name when the tag is absent or its name part is empty
ResolvedName(field, i) ==
    IF NamePart(field.json) = <<>> THEN FieldGoName(i) ELSE NamePart(field.json)

\* whether "omitempty" stands among the options of the json tag
Optional(field) ==
    \E i \in 2..Len(field.json) :
        /\ field.json[i] = "omitempty"
        /\ field.json[i - 1] = ","
        /\ i < Len(field.json) => field.json[i + 1] = ","

\* the exported, non-skipped fields of struct type t, by position
Included(t, g) ==
    { i \in 1..Len(Fields(t, g)) :
        Fields(t, g)[i].Exported /\ Fields(t, g)[i].json # <<"-">> }

\* the resolved name of the i-th field of struct type t
NameOf(t, g, i) == ResolvedName(Fields(t, g)[i], i)

\* the included fields whose property is not overwritten by a later field
\* of the same property name
Surviving(t, g) ==
    { i \in Included(t, g) :
        \A j \in Included(t, g) :
            j > i => NameOf(t, g, j) # NameOf(t, g, i) }

RECURSIVE RecursiveOccurrencesEmpty(_, _, _, _)
\* d is a schema of type t0 reached through the struct types anc, and at every
\* place of d where a struct type of anc (or one found on the way) occurs
\* again, d holds an empty object
RecursiveOccurrencesEmpty(t0, d, anc, g) ==
    LET t == Indirect(t0)
    IN  CASE Kind(t) = "struct" /\ t \in anc -> IsEmptyObject(d)
          [] Kind(t) = "struct" /\ t \notin anc ->
                /\ d.Properties # Nil
                /\ \A i \in Surviving(t, g) :
                      LET n == NameOf(t, g, i)
                      IN  /\ n \in DOMAIN d.Properties[1]
                          /\ RecursiveOccurrencesEmpty(Fields(t, g)[i].Type,
                                 d.Properties[1][n], anc \cup {t}, g)
          [] Kind(t) \in {"slice", "array"} ->
                /\ d.Items # Nil
                /\ RecursiveOccurrencesEmpty(Elem(t), d.Items[1], anc, g)
          [] OTHER -> TRUE

\* C1: for a struct type that contains itself, directly or through a chain of
\* struct types, pointers, slices or maps, GenerateSchemaForType returns, with
\* a nil error, and the Definition at each recursive occurrence is an empty
\* object: Type object, Properties an empty map, no Required, no Items.
C1_CycleSafe ==
    /\ [](\A c \in Returned :
             /\ ret[c].err = NoError
             /\ RecursiveOccurrencesEmpty(input[c].type, node[c], {}, input[c].G))
    /\ \A c \in {"c1"} : (status[c] = "running") ~> (status[c] = "done")

\* a call on G, declared with a field *G, has returned, and the property of
\* that field is the empty object
C1_Witness ==
    /\ status["c1"] = "done"
    /\ input["c1"].type = T_G
    /\ Len(input["c1"].G) = 1
    /\ input["c1"].G[1].Type = PointerTo(T_G)
    /\ node["c1"].Properties # Nil
    /\ <<"y">> \in DOMAIN node["c1"].Properties[1]
    /\ IsEmptyObject(node["c1"].Properties[1][<<"y">>])

\* the property names of the included fields of struct type t
PropertyNames(t, g) == { NameOf(t, g, i) : i \in Included(t, g) }

RECURSIVE FullyExpanded(_, _, _, _)
\* d is a schema of type t0 reached through the struct types anc, and every
\* struct type in it that is not being expanded higher on its own path is an
\* object with all the properties of the struct
FullyExpanded(t0, d, anc, g) ==
    LET t == Indirect(t0)
    IN  CASE Kind(t) = "struct" /\ t \notin anc ->
                /\ d.Type = Object
                /\ d.Properties # Nil
                /\ DOMAIN d.Properties[1] = PropertyNames(t, g)
                /\ \A i \in Surviving(t, g) :
                      FullyExpanded(Fields(t, g)[i].Type,
                          d.Properties[1][NameOf(t, g, i)],
                          anc \cup {t}, g)
          [] Kind(t) \in {"slice", "array"} ->
                /\ d.Items # Nil
                /\ FullyExpanded(Elem(t), d.Items[1], anc, g)
          [] OTHER -> TRUE

\* C2: the cycle guard is path-scoped.  A struct type that occurs in sibling
\* branches of one generation, and is not being expanded higher on the same
\* path, is expanded to its complete object Definition at every occurrence;
\* only an occurrence below itself is cut short.
C2_PathScoped ==
    \A c \in Returned : FullyExpanded(input[c].type, node[c], {}, input[c].G)

\* the call on Pair has returned: its fields x and y (both U), the elements
\* of C ([]U) and D (*U) all carry the two properties of U
C2_Witness ==
    /\ status["c1"] = "done"
    /\ input["c1"].type = T_Pair
    /\ \A n \in {<<"x">>, <<"y">>, <<"D">>} :
          DOMAIN node["c1"].Properties[1][n].Properties[1] = {<<"x">>, <<"y">>}
    /\ DOMAIN node["c1"].Properties[1][<<"C">>].Items[1].Properties[1] = {<<"x">>, <<"y">>}

\* the inputs of the calls that run side by side
ConcurrentInputs == { in \in Inputs : in.type \in DeclaredRoots \cup {PointerTo(T_Tree)} }

NextConcurrent ==
    \E c \in Callers :
        \/ /\ status[c] = "idle"
           /\ \E in \in ConcurrentInputs : CallGenerateSchemaForType(c, in)
        \/ Generate(c)

\* several goroutines call GenerateSchemaForType
SpecConcurrent == Init /\ [][NextConcurrent]_vars

\* the struct types caller c is expanding: those of the generateStructSchema
\* frames on its stack
Expanding(c) ==
    { stack[c][k].t : k \in { j \in 1..Len(stack[c]) : stack[c][j].fn = "generateStructSchema" } }

\* C3: concurrent calls of GenerateSchemaForType share no mutable state.
\* Each call has a cycle-guard map of its own, which holds only what the
\* call itself added, and under every interleaving each call returns the
\* Definition it returns when it runs alone.
C3_NoSharedState ==
    /\ \A c, d \in Callers :
          c # d /\ status[c] = "running" /\ status[d] = "running" => guard[c] # guard[d]
    /\ \A c \in Callers : status[c] = "running" => Seen(c) = Expanding(c)
    /\ \A c \in Returned :
          /\ ret[c].err = NoError
          /\ node[c] = GenerateSchemaForType(input[c].type, input[c].G).def

\* both callers are inside a call on the same self-referential type, each
\* with that type marked in its own map
C3_Witness ==
    /\ status["c1"] = "running"
    /\ status["c2"] = "running"
    /\ input["c1"].type = T_Node
    /\ input["c2"].type = T_Node
    /\ Seen("c1") = {T_Node}
    /\ Seen("c2") = {T_Node}
    /\ Len(stack["c1"]) > 1
    /\ Len(stack["c2"]) = 1

\* the texts json.Marshal has returned to caller c
Outputs(c) ==
    (IF out[c].value = Nil THEN {} ELSE {out[c].value[1]})
    \cup (IF out[c].pointer = Nil THEN {} ELSE {out[c].pointer[1]})

\* the number of members of JSON object j that have the key
Count(j, key) == Cardinality({ i \in 1..Len(j.v) : j.v[i].key = key })

\* the value of the member of JSON object j with the key
Get(j, key) == j.v[CHOOSE i \in 1..Len(j.v) : j.v[i].key = key].val

RECURSIVE PropertiesEverywhere(_, _)
\* j is the text of Definition d, and at the node and at every node below it,
\* under properties and under items, "properties" is there once and is an
\* object, the empty one when the node's Properties are nil or empty
PropertiesEverywhere(d, j) ==
    /\ j.k = "object"
    /\ Count(j, <<"properties">>) = 1
    /\ LET ps == Get(j, <<"properties">>)
           m == IF d.Properties = Nil THEN EmptyMap ELSE d.Properties[1]
       IN  /\ ps.k = "object"
           /\ (DOMAIN m = {}) => ps.v = <<>>
           /\ Len(ps.v) = Cardinality(DOMAIN m)
           /\ \A key \in DOMAIN m :
                 /\ Count(ps, key) = 1
                 /\ PropertiesEverywhere(m[key], Get(ps, key))
    /\ d.Items # Nil =>
          /\ Count(j, <<"items">>) = 1
          /\ PropertiesEverywhere(d.Items[1], Get(j, <<"items">>))

\* C4: serialization writes a "properties" key holding a JSON object at every
\* node of a Definition tree: the root, each value under properties, each node
\* under items, at any depth.  It is never absent or null, and it is {} when
\* the node's Properties are nil or empty.
C4_PropertiesAlways ==
    \A c \in Callers : \A j \in Outputs(c) : PropertiesEverywhere(node[c], j)

\* the member of JSON object j found by following the keys of path
RECURSIVE At(_, _)
At(j, path) == IF path = <<>> THEN j ELSE At(Get(j, Head(path)), Tail(path))

\* the schema generated for Pair has been serialized: the leaf y of its
\* property x, and the leaf x of the items of its property C, both of nil
\* Properties, are written with "properties": {}
C4_Witness ==
    /\ status["c1"] = "done"
    /\ input["c1"].type = T_Pair
    /\ out["c1"].value # Nil
    /\ node["c1"].Properties[1][<<"x">>].Properties[1][<<"y">>].Properties = Nil
    /\ node["c1"].Properties[1][<<"C">>].Items[1].Properties[1][<<"x">>].Properties = Nil
    /\ At(out["c1"].value[1],
          << <<"properties">>, <<"x">>, <<"properties">>, <<"y">>, <<"properties">> >>)
             = JObject(<<>>)
    /\ At(out["c1"].value[1],
          << <<"properties">>, <<"C">>, <<"items">>, <<"properties">>, <<"x">>, <<"properties">> >>)
             = JObject(<<>>)

RECURSIVE TriState(_, _)
\* j is the text of Definition d, and at the node and every node below it
\* "additionalProperties" is false, true or absent as the node's flag is
\* set to false, set to true or unset
TriState(d, j) ==
    /\ j.k = "object"
    /\ d.AdditionalProperties = Nil <=> Count(j, <<"additionalProperties">>) = 0
    /\ d.AdditionalProperties = Ptr(FALSE) <=>
          /\ Count(j, <<"additionalProperties">>) = 1
          /\ Get(j, <<"additionalProperties">>) = JBool(FALSE)
    /\ d.AdditionalProperties = Ptr(TRUE) <=>
          /\ Count(j, <<"additionalProperties">>) = 1
          /\ Get(j, <<"additionalProperties">>) = JBool(TRUE)
    /\ d.Properties # Nil =>
          \A key \in DOMAIN d.Properties[1] :
              TriState(d.Properties[1][key], At(j, << <<"properties">>, key >>))
    /\ d.Items # Nil => TriState(d.Items[1], Get(j, <<"items">>))

\* C5: additionalProperties is tri-state in the output: it is the literal
\* false exactly when the node's flag is set to false, the literal true
\* exactly when it is set to true, and there is no such key when it is unset.
C5_TriState ==
    \A c \in Callers : \A j \in Outputs(c) : TriState(node[c], j)

\* a tree whose root has the flag set to false, whose property b has it set
\* to true and whose property a has it unset has been serialized
C5_Witness ==
    /\ status["c1"] = "built"
    /\ out["c1"].value # Nil
    /\ node["c1"].AdditionalProperties = Ptr(FALSE)
    /\ node["c1"].Properties # Nil
    /\ DOMAIN node["c1"].Properties[1] = {<<"a">>, <<"b">>}
    /\ node["c1"].Properties[1][<<"b">>].AdditionalProperties = Ptr(TRUE)
    /\ node["c1"].Properties[1][<<"a">>].AdditionalProperties = Nil
    /\ Get(out["c1"].value[1], <<"additionalProperties">>) = JBool(FALSE)
    /\ At(out["c1"].value[1], << <<"properties">>, <<"b">>, <<"additionalProperties">> >>)
          = JBool(TRUE)
    /\ Count(At(out["c1"].value[1], << <<"properties">>, <<"a">> >>),
             <<"additionalProperties">>) = 0

\* the callers whose call on a struct type, behind any pointers, has returned
ReturnedStruct == { c \in Returned : Kind(Indirect(input[c].type)) = "struct" }

\* the struct type caller c generated a schema for
RootStruct(c) == Indirect(input[c].type)

\* C6 as stated: a struct with N exported, non-skipped fields yields an object
\* with exactly N properties, each keyed by its field's resolved name.
C6_Original ==
    \A c \in ReturnedStruct :
        /\ node[c].Type = Object
        /\ node[c].Properties # Nil
        /\ Cardinality(DOMAIN node[c].Properties[1])
              = Cardinality(Included(RootStruct(c), input[c].G))
        /\ \A i \in Included(RootStruct(c), input[c].G) :
              NameOf(RootStruct(c), input[c].G, i) \in DOMAIN node[c].Properties[1]

\* C6, amended: a struct with N exported, non-skipped fields yields an object
\* whose properties are keyed by the resolved names of those fields, one
\* property for each distinct name: exactly N when the names differ pairwise.
C6_PropertiesPerName ==
    \A c \in ReturnedStruct :
        LET t == RootStruct(c)
            g == input[c].G
        IN  /\ node[c].Type = Object
            /\ node[c].Properties # Nil
            /\ DOMAIN node[c].Properties[1] = PropertyNames(t, g)
            /\ (\A i, j \in Included(t, g) : i # j => NameOf(t, g, i) # NameOf(t, g, j))
                  => Cardinality(DOMAIN node[c].Properties[1]) = Cardinality(Included(t, g))

\* G declared with fields of different names, the first named by its tag and
\* the last by its Go name, none skipped, has its schema: one property for each
C6_Witness ==
    /\ status["c1"] = "done"
    /\ input["c1"].type = T_G
    /\ Len(input["c1"].G) = MaxFields
    /\ Cardinality(Included(T_G, input["c1"].G)) = MaxFields
    /\ input["c1"].G[1].json = TAG_x_omitempty
    /\ input["c1"].G[MaxFields].json = <<>>
    /\ DOMAIN node["c1"].Properties[1] = {<<"x">>, FieldGoName(MaxFields)}

RECURSIVE RequiredFrom(_, _, _)
\* the resolved names of the included fields without the optional marker,
\* from the i-th field on, in declaration order
RequiredFrom(t, g, i) ==
    IF i > Len(Fields(t, g)) THEN <<>>
    ELSE IF i \in Included(t, g) /\ ~Optional(Fields(t, g)[i])
         THEN <<NameOf(t, g, i)>> \o RequiredFrom(t, g, i + 1)
         ELSE RequiredFrom(t, g, i + 1)

\* the names a sequence lists
Range(q) == { q[k] : k \in 1..Len(q) }

\* C7 as stated: a field without the optional marker always appears in
\* required, in declaration order, and a field with the marker never does.
C7_Original ==
    \A c \in ReturnedStruct :
        LET t == RootStruct(c)
            g == input[c].G
        IN  /\ node[c].Required = RequiredFrom(t, g, 1)
            /\ \A i \in Included(t, g) :
                  Optional(Fields(t, g)[i]) => NameOf(t, g, i) \notin Range(node[c].Required)

\* C7, amended: required is the resolved names of the included fields without
\* the optional marker, in declaration order, so such a field always appears;
\* a field with the marker appears in required only under a name that an
\* included field without the marker resolves to as well.
C7_RequiredInOrder ==
    \A c \in ReturnedStruct :
        LET t == RootStruct(c)
            g == input[c].G
        IN  /\ node[c].Required = RequiredFrom(t, g, 1)
            /\ \A i \in Included(t, g) :
                  /\ ~Optional(Fields(t, g)[i]) => NameOf(t, g, i) \in Range(node[c].Required)
                  /\ Optional(Fields(t, g)[i]) /\ NameOf(t, g, i) \in Range(node[c].Required)
                        => \E j \in Included(t, g) :
                              /\ ~Optional(Fields(t, g)[j])
                              /\ NameOf(t, g, j) = NameOf(t, g, i)

\* the schema of Pair is there: its fields x, y and C, in that order, are
\* required, and D, tagged omitempty, and the unexported field are not
C7_Witness ==
    /\ status["c1"] = "done"
    /\ input["c1"].type = T_Pair
    /\ Optional(StructDecl("Pair")[4])
    /\ node["c1"].Required = << <<"x">>, <<"y">>, <<"C">> >>
    /\ <<"D">> \in DOMAIN node["c1"].Properties[1]

RECURSIVE NoPointers(_)
\* type t with every pointer level in it taken away
NoPointers(t) ==
    IF t.elem = <<>> THEN t
    ELSE IF Kind(t) = "ptr" THEN NoPointers(Elem(t))
    ELSE [t EXCEPT !.elem = <<NoPointers(Elem(t))>>]

\* declaration g with the pointer levels of its field types taken away
NoPointerFields(g) == [i \in DOMAIN g |-> [g[i] EXCEPT !.Type = NoPointers(@)]]

\* C9: pointer types are transparent to generation.  For a type T behind any
\* number of pointer levels, and with struct fields of pointer-to-T types,
\* GenerateSchemaForType returns the Definition it returns with the pointer
\* levels taken away, required included.
C9_PointerTransparent ==
    \A c \in Returned :
        /\ ret[c].err = NoError
        /\ node[c] = GenerateSchemaForType(NoPointers(input[c].type),
                                           NoPointerFields(input[c].G)).def

\* the call on a pointer to pointers to G, G declared with an optional field
\* of type **Node, has returned an object that holds the schema of Node
C9_Witness ==
    /\ status["c1"] = "done"
    /\ input["c1"].type = PtrN(T_G, MaxPtrDepth)
    /\ MaxPtrDepth > 1
    /\ Len(input["c1"].G) > 0
    /\ input["c1"].G[1].Type = PointerTo(PointerTo(T_Node))
    /\ node["c1"].Type = Object
    /\ node["c1"].Required = <<>>
    /\ node["c1"].Properties[1][<<"A">>] = GenerateSchemaForType(T_Node, <<>>).def
    /\ DOMAIN node["c1"].Properties[1][<<"A">>].Properties[1] = {<<"A">>, <<"x">>}

\* C8: serializing a Definition value and serializing a pointer to the same
\* Definition give the same output, for every Definition tree.
C8_ValueAndPointerAgree ==
    \A c \in Callers :
        out[c].value # Nil /\ out[c].pointer # Nil => out[c].value = out[c].pointer

\* a tree whose root and nested nodes have nil Properties has been
\* serialized both ways
C8_Witness ==
    /\ status["c1"] = "built"
    /\ out["c1"].value # Nil
    /\ out["c1"].pointer # Nil
    /\ node["c1"].Properties = Nil
    /\ node["c1"].Items # Nil
    /\ node["c1"].Items[1].Properties = Nil
    /\ At(out["c1"].pointer[1], << <<"items">>, <<"properties">> >>) = JObject(<<>>)
    /\ Get(out["c1"].value[1], <<"properties">>) = JObject(<<>>)

RECURSIVE Nodes(_)
\* the nodes of Definition tree d: d, and the nodes of its properties and items
Nodes(d) ==
    {d}
    \cup (IF d.Properties = Nil THEN {}
          ELSE UNION { Nodes(d.Properties[1][key]) : key \in DOMAIN d.Properties[1] })
    \cup (IF d.Items = Nil THEN {} ELSE Nodes(d.Items[1]))

\* C10: whenever the enum of a generated node is present, it has at least one
\* element and its values are pairwise distinct.
C10_EnumDistinct ==
    \A c \in Returned :
        \A d \in Nodes(node[c]) :
            d.Enum # <<>> =>
                /\ Len(d.Enum) >= 1
                /\ \A i, j \in 1..Len(d.Enum) : i # j => d.Enum[i] # d.Enum[j]

\* an enum tag that is no list of literals: empty, or with an empty segment
\* (a comma at either end, or two commas in a row)
Malformed(enum) ==
    \/ enum = <<>>
    \/ enum[1] = ","
    \/ enum[Len(enum)] = ","
    \/ \E i \in 1..(Len(enum) - 1) : enum[i] = "," /\ enum[i + 1] = ","

\* C11: a malformed enum annotation never fails generation.  A field whose
\* jsonschema_enum tag is empty or malformed (a lone comma, an empty segment)
\* has an empty enum on its Definition, and the generation returns a nil error.
C11_MalformedEnumEmpty ==
    /\ \A c \in Callers : ret[c].err = NoError
    /\ \A c \in ReturnedStruct :
          LET t == RootStruct(c)
              g == input[c].G
          IN  \A i \in Surviving(t, g) :
                  Malformed(Fields(t, g)[i].enum)
                      => node[c].Properties[1][NameOf(t, g, i)].Enum = <<>>

RECURSIVE Literals(_)
\* the literals an enum tag lists between its commas, in the order of the tag
Literals(tag) ==
    IF \E i \in 1..Len(tag) : tag[i] = ","
    THEN LET last == CHOOSE i \in 1..Len(tag) :
                        tag[i] = "," /\ \A k \in (i + 1)..Len(tag) : tag[k] # ","
         IN  Append(Literals(SubSeq(tag, 1, last - 1)), SubSeq(tag, last + 1, Len(tag)))
    ELSE <<tag>>

\* C12: a jsonschema_enum tag on a field replaces the enum of the field's
\* Definition with the comma-separated literals of the tag, in the order of
\* the tag, whatever the field's type produced: a field cut short by the
\* cycle guard is the empty object with the enum of its tag.
C12_EnumFromTag ==
    \A c \in ReturnedStruct :
        LET t == RootStruct(c)
            g == input[c].G
        IN  \A i \in Surviving(t, g) :
                LET field == Fields(t, g)[i]
                    d == node[c].Properties[1][NameOf(t, g, i)]
                IN  field.enum # <<>> =>
                        /\ d.Enum = Literals(field.enum)
                        /\ Indirect(field.Type) = t => IsEmptyObject(d)

\* G declared with a string field tagged with the enum a,b and a field *G
\* tagged with an enum has its schema: the first property lists a then b, the
\* second is the empty object of the cycle guard and carries its enum
C12_Witness ==
    /\ status["c1"] = "done"
    /\ input["c1"].type = T_G
    /\ Len(input["c1"].G) = 2
    /\ input["c1"].G[1].enum = <<"a", ",", "b">>
    /\ input["c1"].G[1].Type = T_string
    /\ input["c1"].G[2].Type = PointerTo(T_G)
    /\ input["c1"].G[2].enum # <<>>
    /\ node["c1"].Properties[1][<<"x">>].Enum = << <<"a">>, <<"b">> >>
    /\ node["c1"].Properties[1][<<"x">>].Type = String
    /\ IsEmptyObject(node["c1"].Properties[1][<<"y">>])
    /\ Len(node["c1"].Properties[1][<<"y">>].Enum) = 2

\* the kinds the switch of generateSchema lists as primitive
TableKinds ==
    {"int", "int8", "int16", "int32", "int64", "uint", "uint8", "uint16", "uint32",
     "uint64", "float32", "float64", "bool", "string"}

\* the integer kinds of Go, of every width and signedness: the signed and the
\* unsigned ones of 8 to 64 bits, int, uint and uintptr
IntegerKinds ==
    {"int", "int8", "int16", "int32", "int64",
     "uint", "uint8", "uint16", "uint32", "uint64", "uintptr"}

\* the primitive kinds: the integer and floating kinds, bool and string
PrimitiveKinds == IntegerKinds \cup {"float32", "float64", "bool", "string"}

\* the fixed table of the primitive kinds
TableType(k) ==
    IF k \in IntegerKinds THEN <<"integer">>
    ELSE IF k \in {"float32", "float64"} THEN <<"number">>
    ELSE IF k = "bool" THEN <<"boolean">>
    ELSE <<"string">>

\* C13: the primitive kinds map by a fixed table: every integer kind, of any
\* width and signedness, gives Type integer, every floating kind number, bool
\* boolean and string string, and the Definition has no properties, required,
\* items or enum.  As the type of a struct field a primitive kind gives a
\* property of the same Type, without properties, required or items.
C13_PrimitiveTable ==
    /\ \A c \in Returned :
          Kind(input[c].type) \in PrimitiveKinds =>
              /\ node[c].Type = TableType(Kind(input[c].type))
              /\ node[c].Properties = Nil
              /\ node[c].Required = <<>>
              /\ node[c].Items = Nil
              /\ node[c].Enum = <<>>
    /\ \A c \in ReturnedStruct :
          LET t == RootStruct(c)
              g == input[c].G
          IN  \A i \in Surviving(t, g) :
                  LET d == node[c].Properties[1][NameOf(t, g, i)]
                      k == Kind(Fields(t, g)[i].Type)
                  IN  k \in PrimitiveKinds =>
                          /\ d.Type = TableType(k)
                          /\ d.Properties = Nil
                          /\ d.Required = <<>>
                          /\ d.Items = Nil

\* a kind generateSchema has no case for: not a struct, slice, array, map,
\* pointer, interface or kind of the table
Unsupported(k) ==
    k \notin TableKinds \cup {"struct", "slice", "array", "map", "ptr", "interface"}

\* the Definition of the string fallback, descriptions and enums of tags aside
IsStringFallback(d) ==
    /\ d.Type = <<"string">>
    /\ d.Properties = Nil
    /\ d.Required = <<>>
    /\ d.Items = Nil
    /\ d.AdditionalProperties = Nil

RECURSIVE FallbackEverywhere(_, _, _, _)
\* d is a schema of type t0 reached through the struct types anc, and at every
\* place of d where a type of an unsupported kind occurs, under properties
\* and under items, behind pointers or not, d holds the string fallback
FallbackEverywhere(t0, d, anc, g) ==
    LET t == Indirect(t0)
    IN  CASE Kind(t) = "struct" /\ t \notin anc ->
                /\ d.Properties # Nil
                /\ \A i \in Surviving(t, g) :
                      /\ NameOf(t, g, i) \in DOMAIN d.Properties[1]
                      /\ FallbackEverywhere(Fields(t, g)[i].Type,
                             d.Properties[1][NameOf(t, g, i)], anc \cup {t}, g)
          [] Kind(t) \in {"slice", "array"} ->
                /\ d.Items # Nil
                /\ FallbackEverywhere(Elem(t), d.Items[1], anc, g)
          [] Unsupported(Kind(t)) -> IsStringFallback(d)
          [] OTHER -> TRUE

\* C14: generation never fails on an unsupported kind.  For a type whose kind
\* is none of struct, slice, array, map, pointer, interface or a kind of the
\* table (chan, func, complex, ...) generateSchema returns Definition{Type:
\* string} and a nil error, at the root and at any depth, and the generation
\* that contains it returns a nil error as well.
C14_UnsupportedKindFallsBack ==
    /\ \A c \in Callers : ret[c].err = NoError
    /\ \A c \in Returned :
          /\ Unsupported(Kind(input[c].type))
                => node[c] = [Definition EXCEPT !.Type = <<"string">>]
          /\ FallbackEverywhere(input[c].type, node[c], {}, input[c].G)

\* the call on an array of slices of pointers to a uintptr has returned: the
\* items of its items are the string fallback, and the error is nil
C14_Witness ==
    /\ status["c1"] = "done"
    /\ input["c1"].type = ArrayOf(SliceOf(PointerTo(Prim("uintptr"))))
    /\ ret["c1"].err = NoError
    /\ node["c1"].Type = Array
    /\ node["c1"].Items[1].Type = Array
    /\ node["c1"].Items[1].Items[1] = [Definition EXCEPT !.Type = <<"string">>]

\* the generateStructSchema frames on the stack of caller c, by position
StructFrames(c) == { k \in 1..Len(stack[c]) : stack[c][k].fn = "generateStructSchema" }

\* caller c has just entered generateStructSchema
JustEntered(c) ==
    /\ status[c] = "running"
    /\ stack[c] # <<>>
    /\ Top(c).fn = "generateStructSchema"
    /\ Top(c).pc = "loop"
    /\ Top(c).i = 1

\* C16: generateStructSchema restores the cycle-guard set.  It adds its struct
\* type on entry and leaves the set, when it returns, as it was on entry; so
\* at every point the set is the set of the struct types being expanded on
\* the active path, each of them once, and it is empty when the top-level
\* call has returned.
C16_SeenRestored ==
    \A c \in {"c1"} :
        /\ status[c] = "running" =>
              /\ Seen(c) = { stack[c][k].t : k \in StructFrames(c) }
              /\ \A j, k \in StructFrames(c) : j # k => stack[c][j].t # stack[c][k].t
        /\ JustEntered(c) =>
              LET entry == Seen(c) \ {Top(c).t}
              IN  /\ Top(c).t \in Seen(c)
                  /\ generateStructSchema(Top(c).t, entry, input[c].G).seen = entry
        /\ status[c] \in {"done", "built"} => Seen(c) = {}

\* inside the call on Pair the expansion of U, the type of its first field,
\* has returned: the set holds Pair alone again
C16_Witness ==
    /\ status["c1"] = "running"
    /\ input["c1"].type = T_Pair
    /\ Len(stack["c1"]) = 1
    /\ Top("c1").fn = "generateStructSchema"
    /\ Top("c1").pc = "await"
    /\ Top("c1").i = 1
    /\ ret["c1"].def.Type = Object
    /\ ret["c1"].def.Required = << <<"x">> >>
    /\ Seen("c1") = {T_Pair}

\* the declared non-struct types that refer to themselves
SelfReferring == {T_L, T_M, T_P}

\* the inputs of one call, values of the self-referring types among them
AnyTypeInputs ==
    Inputs \cup { [type |-> t, G |-> <<>>] : t \in SelfReferring \cup {PointerTo(T_L)} }

\* the top frame of caller c is about to call generateSchema once more
AboutToCall(c) ==
    IF Top(c).fn = "generateSchema"
    THEN ~isPtr(Top(c).t) /\ Kind(Top(c).t) \in {"slice", "array", "map"}
    ELSE Top(c).fn = "generateStructSchema" /\ Top(c).pc = "loop"
         /\ MoreFields(c) /\ ~skipped(CurrentField(c))

\* the recursion has used up the goroutine's stack: the Go runtime ends the
\* program with "fatal error: stack overflow", and the call never returns
StackOverflow(c) ==
    /\ status[c] = "running"
    /\ Len(stack[c]) >= MaxStack
    /\ AboutToCall(c)
    /\ status' = [status EXCEPT ![c] = "crashed"]
    /\ UNCHANGED <<input, stack, guard, seen, ret, node, out>>

NextAnyType ==
    \/ /\ status["c1"] = "idle"
       /\ \E in \in AnyTypeInputs : CallGenerateSchemaForType("c1", in)
    \/ Generate("c1")
    \/ StackOverflow("c1")

\* one caller runs the generator on a value of any type
SpecAnyType == Init /\ [][NextAnyType]_vars

\* a call that has started keeps running
FairSpecAnyType == SpecAnyType /\ WF_vars(Generate("c1") \/ StackOverflow("c1"))

\* C17: GenerateSchemaForType terminates for every finite type graph, the
\* named types that refer to themselves without passing through a struct
\* included: type L []L, type M map[string]M, type P *P.  A call that has
\* started returns.
C17_Terminates ==
    \A c \in {"c1"} : (status[c] = "running") ~> (status[c] = "done")

\* C18: serialization does not modify the caller's Definition.  Across every
\* call of json.Marshal, on the value or on a pointer to it, the caller's tree
\* is the same after as before: a node whose Properties were nil still has
\* nil Properties, the empty map being given to a copy only.
C18_CallerUnchanged ==
    [][\A c \in Callers : out'[c] # out[c] => node'[c] = node[c]]_vars

\* an array Definition built by hand, with nil Properties at the root and in
\* its items, has been serialized through a pointer: the text has "properties"
\* as {} at both nodes and the tree still has nil at both
C18_Witness ==
    /\ status["c1"] = "built"
    /\ out["c1"].pointer # Nil
    /\ out["c1"].value = Nil
    /\ node["c1"].Type = Array
    /\ node["c1"].Properties = Nil
    /\ node["c1"].Items # Nil
    /\ node["c1"].Items[1].Properties = Nil
    /\ Get(out["c1"].pointer[1], <<"properties">>) = JObject(<<>>)
    /\ At(out["c1"].pointer[1], << <<"items">>, <<"properties">> >>) = JObject(<<>>)

====
